---- MODULE Spec2Model ----
(***************************************************************************)
(* Progress narration engine of LiveKit_mcp_client.                        *)
(*                                                                         *)
(* ProgressManager (src/mcp_client/progress_manager.py) keeps six          *)
(* dictionaries and one asyncio task per tool ("lane").  The synchronous   *)
(* methods queue_progress, mark_completed and cleanup are atomic; a lane   *)
(* task _speak_progress_queue is atomic between two awaits.  Time is the   *)
(* value of time.time() in whole seconds; a sleep of 0.1 s may end within  *)
(* the same second.                                                        *)
(***************************************************************************)
EXTENDS Integers, Sequences, FiniteSets, TLC

\* ---------------------------------------------------------------- bounds
MaxTime == 2
MaxTasks == 2
MaxQueued == 3
MaxShutdowns == 1
MaxRestarts == 2
MaxCalls == 2
MaxStreams == 2
MaxChunks == 2
MaxDedupWindow == 1
MaxBatchWindow == 1
\* The tasks and the messages of a manager that is used again after cleanup.
MaxReused == 3
\* The seconds a manager is followed for where stamps have to get old.
MaxAge == 3
\* The progress texts one tool reports within a batch window.
MaxFlood == 7
\* The lanes of one tool, followed further.
DeepTasks == 4
DeepQueued == 4

\* ------------------------------------------------------------- constants
BatchCap == 5
HistoryContext == 3

Tools == {"X", "Y"}

\* Raw progress texts a tool may report.  "Gathering All rows" contains the
\* skip pattern "gathering all" in another case.
Messages == {"Loading", "Comparing", "Saving", "Gathering All rows",
             "Sorting", "Merging", "Exporting", "Packing"}

\* What the chat completion may hold: a quoted, padded phrase.
LLMContent == " \"Got it\" "
StillWorking == "Still working on that."

\* ------------------------------------------------------------ dictionaries
EmptyDict == [x \in {} |-> 0]
Put(d, k, v) == [x \in (DOMAIN d) \cup {k} |-> IF x = k THEN v ELSE d[x]]
Del(d, k) == [x \in (DOMAIN d) \ {k} |-> d[x]]
Get(d, k, default) == IF k \in DOMAIN d THEN d[k] ELSE default

\* ------------------------------------------------------------ strings
UpperCase == "ABCDEFGHIJKLMNOPQRSTUVWXYZ"
LowerCase == "abcdefghijklmnopqrstuvwxyz"

CharLower(c) ==
    IF \E i \in 1..26 : SubSeq(UpperCase, i, i) = c
    THEN LET i == CHOOSE j \in 1..26 : SubSeq(UpperCase, j, j) = c
         IN SubSeq(LowerCase, i, i)
    ELSE c

RECURSIVE lower(_)
lower(s) ==
    IF Len(s) = 0 THEN ""
    ELSE CharLower(SubSeq(s, 1, 1)) \o lower(SubSeq(s, 2, Len(s)))

\* Python's `pattern in text`
Contains(text, pattern) ==
    \E i \in 1..(Len(text) - Len(pattern) + 1) :
        SubSeq(text, i, i + Len(pattern) - 1) = pattern

skip_patterns ==
    { "selecting", "identifying", "gathering all", "calculating the total",
      "finalizing the", "compiling the final", "diving into",
      "let's break down", "exploring new patterns", "ready to save" }

\* As should_announce, comparing the message as it is written.
should_announce_as_written(message) ==
    ~ \E pattern \in skip_patterns : Contains(message, pattern)

should_announce(message) ==
    ~ \E pattern \in skip_patterns : Contains(lower(message), pattern)

\* should_announce on the texts of the model, evaluated once.
ShouldAnnounce == [message \in Messages |-> should_announce(message)]

\* str.strip(chars)
RECURSIVE lstrip(_, _)
lstrip(s, chars) ==
    IF Len(s) > 0 /\ SubSeq(s, 1, 1) \in chars
    THEN lstrip(SubSeq(s, 2, Len(s)), chars) ELSE s
RECURSIVE rstrip(_, _)
rstrip(s, chars) ==
    IF Len(s) > 0 /\ SubSeq(s, Len(s), Len(s)) \in chars
    THEN rstrip(SubSeq(s, 1, Len(s) - 1), chars) ELSE s
strip(s, chars) == rstrip(lstrip(s, chars), chars)

Whitespace == {" "}

\* ------------------------------------------------------------------ state
VARIABLES
    now,                      \* time.time(), whole seconds
    enable_natural_language,  \* constructor arguments
    dedup_window_seconds,
    batch_window_seconds,
    announced_progress,       \* message -> timestamp
    announcement_history,     \* tool -> natural phrases
    raw_message_history,      \* tool -> raw messages
    progress_queues,          \* tool -> deque of messages
    active_speakers,          \* tool -> task
    speaker_stop_flags,       \* tool -> bool
    tasks,                    \* every asyncio task created, by creation order
    spoken,                   \* the speak_callback calls of the latest step
    generated,                \* its generate_progress_announcement calls
    skipped,                  \* its queue_progress calls that queued nothing
    submitted,                \* text -> when and for which tool it was queued
    retired,                  \* tools whose lane ended on its stop flag
    queued,                   \* the number of messages queued so far
    shutdowns,                \* the number of calls of cleanup
    errors,                   \* the exceptions raised in the latest step
    discarded,                \* the batch and queue a stop of that step dropped
    invocations,              \* the calls of wrapped tools, by starting order
    enable_tool_announcements,         \* FunctionAgent: constructor arguments
    enable_query_intent_announcement,
    announced_phrases,        \* FunctionAgent: set of phrases
    current_user_query,
    query_intent_announced,
    streams,                  \* the llm_node generators, by creation order
    narration,                \* the query changes and intent phrases so far
    say_calls                 \* the activity.say calls of the latest step

config == <<enable_natural_language, dedup_window_seconds, batch_window_seconds>>
registries == <<announced_progress, announcement_history, raw_message_history,
                progress_queues, active_speakers, speaker_stop_flags>>
observed == <<spoken, generated, skipped, submitted, retired, errors,
             discarded>>
announcer == <<enable_tool_announcements, enable_query_intent_announcement,
               announced_phrases, current_user_query, query_intent_announced,
               streams, narration, say_calls>>
manager == <<now, config, registries, tasks, observed, queued, shutdowns>>
vars == <<manager, invocations, announcer>>

\* The engine as one value: what a method or a lane step reads and writes.
Self ==
    [ announced_progress   |-> announced_progress,
      announcement_history |-> announcement_history,
      raw_message_history  |-> raw_message_history,
      progress_queues      |-> progress_queues,
      active_speakers      |-> active_speakers,
      speaker_stop_flags   |-> speaker_stop_flags,
      tasks                |-> tasks,
      spoken               |-> spoken,
      generated            |-> generated,
      skipped              |-> skipped,
      submitted            |-> submitted,
      retired              |-> retired,
      errors               |-> errors,
      discarded            |-> discarded ]

\* A step starts with no call made yet.
Quiet(s) ==
    [s EXCEPT !.spoken = <<>>, !.generated = <<>>, !.skipped = <<>>,
              !.errors = <<>>, !.discarded = <<>>]

Becomes(s) ==
    /\ announced_progress' = s.announced_progress
    /\ announcement_history' = s.announcement_history
    /\ raw_message_history' = s.raw_message_history
    /\ progress_queues' = s.progress_queues
    /\ active_speakers' = s.active_speakers
    /\ speaker_stop_flags' = s.speaker_stop_flags
    /\ tasks' = s.tasks
    /\ spoken' = s.spoken
    /\ generated' = s.generated
    /\ skipped' = s.skipped
    /\ submitted' = s.submitted
    /\ retired' = s.retired
    /\ errors' = s.errors
    /\ discarded' = s.discarded

TaskIds(s) == 1..Len(s.tasks)
Done(s, t) == s.tasks[t].pc = "done"
Live(s) == {t \in TaskIds(s) : ~Done(s, t)}

\* A task that has ended holds nothing any more.
Ended(task) ==
    [ tool_name        |-> task.tool_name,
      pc               |-> "done",
      batched_messages |-> <<>>,
      wake             |-> 0,
      must_cancel      |-> FALSE,
      completed        |-> FALSE,
      shut_down        |-> FALSE,
      arrived          |-> <<>>,
      batches          |-> <<>> ]

\* asyncio.create_task(self._speak_progress_queue(tool_name)): the coroutine
\* has not run yet.
NewTask(tool_name) ==
    [ tool_name        |-> tool_name,
      pc               |-> "created",
      batched_messages |-> <<>>,
      wake             |-> 0,
      must_cancel      |-> FALSE,
      \* What has happened to the task, for the properties:
      completed        |-> FALSE,   \* mark_completed was called on it
      shut_down        |-> FALSE,   \* cleanup was called while it was alive
      arrived          |-> <<>>,    \* the messages queued for its tool
      batches          |-> <<>> ]   \* the batches it has passed on

\* ------------------------------------------------- ProgressManager methods

\* As NotRecentlyAnnounced, the window ending one second sooner.
NotAnnouncedSinceWindow(s, message, time) ==
    \/ message \notin DOMAIN s.announced_progress
    \/ (time - s.announced_progress[message]) >= dedup_window_seconds

\* queue_progress, line 200: never announced, or announced longer ago than
\* the window.
NotRecentlyAnnounced(s, message, time) ==
    \/ message \notin DOMAIN s.announced_progress
    \/ (time - s.announced_progress[message]) > dedup_window_seconds

\* queue_progress, lines 202-208: the first message of a tool makes its
\* queue, its stop flag and its speaker task.
StartSpeaker(s, tool_name) ==
    IF tool_name \notin DOMAIN s.progress_queues
    THEN [s EXCEPT !.progress_queues    = Put(@, tool_name, <<>>),
                   !.speaker_stop_flags = Put(@, tool_name, FALSE),
                   !.tasks              = Append(@, NewTask(tool_name)),
                   !.active_speakers    = Put(@, tool_name, Len(s.tasks) + 1)]
    ELSE s

\* As PruneAnnounced, forgetting every stamp older than the call.
PruneAnnouncedBeforeNow(announced, time) ==
    LET to_remove == {msg \in DOMAIN announced : announced[msg] < time}
    IN  [msg \in (DOMAIN announced) \ to_remove |-> announced[msg]]

\* queue_progress, lines 215-219: forget the stamps older than two windows.
PruneAnnounced(announced, time) ==
    LET cutoff_time == time - (dedup_window_seconds * 2)
        to_remove == {msg \in DOMAIN announced : announced[msg] < cutoff_time}
    IN  [msg \in (DOMAIN announced) \ to_remove |-> announced[msg]]

\* For the properties: every live task of the tool notes what was queued
\* under its name, and the tool is no longer one whose lane has just ended.
Arrived(s, tool_name, message, time) ==
    [s EXCEPT
      !.tasks =
        [t \in TaskIds(s) |->
            IF s.tasks[t].tool_name = tool_name /\ ~Done(s, t)
            THEN [s.tasks[t] EXCEPT
                    !.arrived = Append(@, [message |-> message, at |-> time])]
            ELSE s.tasks[t]],
      !.retired = @ \ {tool_name}]

\* For the properties: a call that queued its message notes when and for
\* which tool, until cleanup; one that did not is noted as skipped.
Submitted(s, before, tool_name, message, time) ==
    IF s.progress_queues # before.progress_queues
    THEN [s EXCEPT !.submitted = Put(@, message,
            [queued_at |-> time, tool_name |-> tool_name])]
    ELSE [s EXCEPT !.skipped =
            Append(@, [tool_name |-> tool_name, message |-> message])]

\* As QueueIfNew, a repeated message stamped again though it is not queued.
QueueIfNewStampAlways(s, tool_name, message, time) ==
    IF ~ShouldAnnounce[message] THEN s
    ELSE IF ~NotRecentlyAnnounced(s, message, time)
    THEN [s EXCEPT !.announced_progress = Put(@, message, time)]
    ELSE LET s1 == StartSpeaker(s, tool_name)
             s2 == [s1 EXCEPT
                      !.progress_queues[tool_name] = Append(@, message),
                      !.announced_progress = Put(@, message, time)]
             s3 == [s2 EXCEPT !.announced_progress = PruneAnnounced(@, time)]
         IN  Arrived(s3, tool_name, message, time)

\* The body of queue_progress; `time` is what time.time() returns.
QueueIfNew(s, tool_name, message, time) ==
    IF ~ShouldAnnounce[message] THEN s
    ELSE IF ~NotRecentlyAnnounced(s, message, time) THEN s
    ELSE LET s1 == StartSpeaker(s, tool_name)
             s2 == [s1 EXCEPT
                      !.progress_queues[tool_name] = Append(@, message),
                      !.announced_progress = Put(@, message, time)]
             s3 == [s2 EXCEPT !.announced_progress = PruneAnnounced(@, time)]
         IN  Arrived(s3, tool_name, message, time)

queue_progress(s, tool_name, message, time) ==
    Submitted(QueueIfNew(s, tool_name, message, time), s, tool_name, message,
              time)

\* queue_progress when asyncio.create_task raises at line 207: the queue and
\* the stop flag of lines 203-204 are there already, nothing after line 207
\* runs, and the handler of lines 224-225 logs the exception and returns.
queue_progress_create_task_raises(s, tool_name, message, time) ==
    IF ~ShouldAnnounce[message] THEN s
    ELSE IF ~NotRecentlyAnnounced(s, message, time) THEN s
    ELSE IF tool_name \in DOMAIN s.progress_queues
    THEN queue_progress(s, tool_name, message, time)
    ELSE [s EXCEPT
           !.progress_queues    = Put(@, tool_name, <<>>),
           !.speaker_stop_flags = Put(@, tool_name, FALSE),
           !.errors = Append(@, [ method |-> "queue_progress",
                                 call   |-> "create_task",
                                 raised |-> FALSE ])]

\* mark_completed.  `completed` records, on the task registered for the tool,
\* that its completion has been signalled.
mark_completed(s, tool_name) ==
    LET flagged == [s EXCEPT !.speaker_stop_flags = Put(@, tool_name, TRUE)]
    IN  IF tool_name \in DOMAIN s.active_speakers
        THEN [flagged EXCEPT !.tasks[s.active_speakers[tool_name]].completed = TRUE]
        ELSE flagged

\* cleanup: task.cancel() on every registered task that is not done, then
\* every dictionary is cleared.  The cancelled task runs later.  `shut_down`
\* records the call on every task that is not done, registered or not.
cleanup(s) ==
    LET registered == {s.active_speakers[k] : k \in DOMAIN s.active_speakers}
    IN  [s EXCEPT
          !.tasks = [t \in TaskIds(s) |->
                       IF Done(s, t) THEN s.tasks[t]
                       ELSE [s.tasks[t] EXCEPT
                               !.must_cancel = @ \/ t \in registered,
                               !.shut_down = TRUE]],
          !.progress_queues      = EmptyDict,
          !.speaker_stop_flags   = EmptyDict,
          !.active_speakers      = EmptyDict,
          !.announced_progress   = EmptyDict,
          !.announcement_history = EmptyDict,
          !.raw_message_history  = EmptyDict,
          !.submitted            = EmptyDict]

\* --------------------------------------- generate_progress_announcement

\* What the chat completion does: it returns content, returns none, or raises.
LLMResponses == {"content", "empty", "error"}

\* announcements.py lines 185 and 191: the context put into the prompt.
Recent(previously_announced) ==
    IF Len(previously_announced) > 0
    THEN SubSeq(previously_announced,
                IF Len(previously_announced) > HistoryContext
                THEN Len(previously_announced) - HistoryContext + 1 ELSE 1,
                Len(previously_announced))
    ELSE <<>>

RecentRaw(raw_messages) ==
    IF Len(raw_messages) > 1
    THEN SubSeq(raw_messages,
                IF Len(raw_messages) > HistoryContext
                THEN Len(raw_messages) - HistoryContext + 1 ELSE 1,
                Len(raw_messages))
    ELSE <<>>

\* The value generate_progress_announcement returns: every Exception of the
\* completion is caught inside it (lines 245-247), so it never raises one.
generate_progress_announcement(response) ==
    IF response = "content"
    THEN strip(strip(strip(LLMContent, Whitespace), {"\""}), {"'"})
    ELSE StillWorking

\* generate_progress_announcement on the responses of the model, evaluated
\* once.
NaturalMessage ==
    [response \in LLMResponses |-> generate_progress_announcement(response)]

\* --------------------------------------------- _speak_progress_queue

\* The finally clause, lines 140-154: whatever is registered under the
\* tool's name is deleted, and the task is done.
Finally(s, t) ==
    LET tool_name == s.tasks[t].tool_name
    IN  [s EXCEPT
          !.progress_queues      = Del(@, tool_name),
          !.speaker_stop_flags   = Del(@, tool_name),
          !.active_speakers      = Del(@, tool_name),
          !.announcement_history = Del(@, tool_name),
          !.raw_message_history  = Del(@, tool_name),
          !.tasks[t] = Ended(@)]

\* Lines 71-73 and 90-92: the stop flag is seen, the loop is left and the
\* finally clause runs.
Stop(s, t) ==
    [Finally(s, t) EXCEPT
      !.retired = @ \cup {s.tasks[t].tool_name},
      !.discarded = <<[ task  |-> t,
                        batch |-> s.tasks[t].batched_messages,
                        queue |-> Get(s.progress_queues,
                                      s.tasks[t].tool_name, <<>>) ]>>]

\* Lines 69-81 and 134-136: from the top of the loop to the next await.
LoopTop(s, t) ==
    LET tool_name == s.tasks[t].tool_name
    IN  IF Get(s.speaker_stop_flags, tool_name, FALSE)
        THEN Stop(s, t)
        ELSE IF /\ tool_name \in DOMAIN s.progress_queues
                /\ Len(s.progress_queues[tool_name]) > 0
        THEN [s EXCEPT
               !.progress_queues[tool_name] = Tail(@),
               !.tasks[t] = [@ EXCEPT
                   !.pc = "batch_sleep",
                   !.batched_messages = <<Head(s.progress_queues[tool_name])>>,
                   !.wake = now + batch_window_seconds]]
        ELSE [s EXCEPT !.tasks[t].pc = "idle_sleep"]

\* Lines 129-139: speak_callback is called; if it raises, the handler of
\* line 138 ends the loop and the finally clause runs.
Speak(s, t, natural_message, response, speak_ok) ==
    LET said == [s EXCEPT !.spoken = Append(@,
                    [ task     |-> t,
                      text     |-> natural_message,
                      \* what the call is made for:
                      messages |-> s.tasks[t].batched_messages,
                      response |-> response ])]
    IN  IF speak_ok
        THEN [said EXCEPT !.tasks[t] = [@ EXCEPT !.pc = "cooldown",
                                                 !.batched_messages = <<>>,
                                                 !.wake = 0]]
        ELSE Finally(said, t)

\* As Drain, taking one more message at most.
DrainOne(s, t) ==
    LET tool_name == s.tasks[t].tool_name
        queue == Get(s.progress_queues, tool_name, <<>>)
    IN  IF Len(queue) = 0 THEN s
        ELSE [s EXCEPT
               !.progress_queues[tool_name] = Tail(queue),
               !.tasks[t].batched_messages = Append(@, Head(queue))]

\* As Drain, with no limit on the size of the batch.
DrainAll(s, t) ==
    LET tool_name == s.tasks[t].tool_name
        queue == Get(s.progress_queues, tool_name, <<>>)
    IN  IF Len(queue) = 0 THEN s
        ELSE [s EXCEPT
               !.progress_queues[tool_name] = <<>>,
               !.tasks[t].batched_messages = @ \o queue]

\* Lines 83-87: the messages queued during the wait, up to five in all.
Drain(s, t) ==
    LET tool_name == s.tasks[t].tool_name
        queue == Get(s.progress_queues, tool_name, <<>>)
        more == IF Len(queue) < BatchCap - 1 THEN Len(queue) ELSE BatchCap - 1
    IN  IF more = 0 THEN s
        ELSE [s EXCEPT
               !.progress_queues[tool_name] = SubSeq(queue, more + 1, Len(queue)),
               !.tasks[t].batched_messages = @ \o SubSeq(queue, 1, more)]

\* As AfterBatchWindow, speaking the first message of the batch as it is,
\* whatever enable_natural_language says.
AfterBatchWindowSpeaksFirst(s, t, speak_ok) ==
    LET tool_name == s.tasks[t].tool_name
        d == Drain(s, t)
        batched_messages == d.tasks[t].batched_messages
        p == [d EXCEPT !.tasks[t].batches = Append(@, batched_messages)]
    IN  IF Get(d.speaker_stop_flags, tool_name, FALSE)
        THEN Stop(d, t)
        ELSE Speak(p, t, batched_messages[1],
                   IF enable_natural_language THEN "content" ELSE "none",
                   speak_ok)

\* As AfterBatchWindow without the second look at the stop flag of lines
\* 89-92.
AfterBatchWindowNoRecheck(s, t, speak_ok) ==
    LET tool_name == s.tasks[t].tool_name
        d == Drain(s, t)
        batched_messages == d.tasks[t].batched_messages
        p == [d EXCEPT !.tasks[t].batches = Append(@, batched_messages)]
    IN  IF enable_natural_language
        THEN [p EXCEPT
               !.raw_message_history =
                   Put(@, tool_name,
                       Get(@, tool_name, <<>>) \o batched_messages),
               !.generated = Append(@,
                   [ task                 |-> t,
                     messages             |-> batched_messages,
                     previously_announced |->
                         Get(p.announcement_history, tool_name, <<>>),
                     raw_messages         |-> <<>> ]),
               !.tasks[t].pc = "generating"]
        ELSE Speak(p, t, batched_messages[Len(batched_messages)], "none",
                   speak_ok)

\* Lines 83-113 and 124-133: the batch window has passed.
AfterBatchWindow(s, t, speak_ok) ==
    LET tool_name == s.tasks[t].tool_name
        d == Drain(s, t)
        batched_messages == d.tasks[t].batched_messages
        p == [d EXCEPT !.tasks[t].batches = Append(@, batched_messages)]
    IN  IF Get(d.speaker_stop_flags, tool_name, FALSE)
        THEN Stop(d, t)
        ELSE IF enable_natural_language
        THEN LET natural_history == Get(p.announcement_history, tool_name, <<>>)
                 \* raw_history is the list object of the dictionary when the
                 \* tool has one: line 104 then extends that same list.
                 raw_history ==
                     IF tool_name \in DOMAIN p.raw_message_history
                     THEN p.raw_message_history[tool_name] \o batched_messages
                     ELSE <<>>
             IN  [p EXCEPT
                   !.raw_message_history =
                       Put(@, tool_name,
                           Get(@, tool_name, <<>>) \o batched_messages),
                   !.generated = Append(@,
                       [ task                 |-> t,
                         messages             |-> batched_messages,
                         previously_announced |-> natural_history,
                         raw_messages         |-> raw_history ]),
                   !.tasks[t].pc = "generating"]
        ELSE Speak(p, t, batched_messages[Len(batched_messages)], "none",
                   speak_ok)

\* Lines 114-133: generate_progress_announcement has returned.
AfterGenerate(s, t, response, speak_ok) ==
    LET tool_name == s.tasks[t].tool_name
        natural_message == NaturalMessage[response]
        tracked == [s EXCEPT !.announcement_history =
                       Put(@, tool_name,
                           Append(Get(@, tool_name, <<>>), natural_message))]
    IN  Speak(tracked, t, natural_message, response, speak_ok)

\* A cancelled task gets CancelledError at its await: no handler catches it
\* and the finally clause runs.  A task cancelled before its first step
\* never enters the try statement.
Cancelled(s, t) ==
    IF s.tasks[t].pc = "created"
    THEN [s EXCEPT !.tasks[t] = Ended(@)]
    ELSE Finally(s, t)

\* ---------------------------------------------------------------- actions

\* What a specification lets the environment do: the tools and texts that
\* report progress, the outcomes of the collaborators, and how far it goes.
Everything ==
    [ tools |-> Tools, messages |-> {"Loading", "Gathering All rows"},
      natural |-> BOOLEAN, responses |-> LLMResponses, speech |-> BOOLEAN,
      max_tasks |-> MaxTasks, max_queued |-> MaxQueued,
      max_time |-> MaxTime, max_shutdowns |-> MaxShutdowns ]

\* FunctionAgent.__init__, with the two features as the constructor's
\* defaults have them or as `features` says.
FunctionAgentInit(features) ==
    /\ enable_tool_announcements \in features
    /\ enable_query_intent_announcement \in features
    /\ announced_phrases = {}
    /\ current_user_query = ""
    /\ query_intent_announced = FALSE
    /\ streams = <<>>
    /\ narration = <<>>
    /\ say_calls = <<>>

ProgressManagerInit(env) ==
    /\ now = 0
    /\ enable_natural_language \in env.natural
    /\ dedup_window_seconds \in 1..MaxDedupWindow
    /\ batch_window_seconds \in 1..MaxBatchWindow
    /\ announced_progress = EmptyDict
    /\ announcement_history = EmptyDict
    /\ raw_message_history = EmptyDict
    /\ progress_queues = EmptyDict
    /\ active_speakers = EmptyDict
    /\ speaker_stop_flags = EmptyDict
    /\ tasks = <<>>
    /\ spoken = <<>>
    /\ generated = <<>>
    /\ skipped = <<>>
    /\ submitted = EmptyDict
    /\ retired = {}
    /\ queued = 0
    /\ shutdowns = 0
    /\ errors = <<>>
    /\ discarded = <<>>

\* A manager with no tool called yet, and an agent with no llm_node yet.
InitOf(env) ==
    /\ ProgressManagerInit(env)
    /\ invocations = <<>>
    /\ FunctionAgentInit({TRUE})

\* The clock advances.
Tick(env) ==
    /\ now < env.max_time
    /\ now' = now + 1
    /\ spoken' = <<>>
    /\ generated' = <<>>
    /\ skipped' = <<>>
    /\ errors' = <<>>
    /\ discarded' = <<>>
    /\ UNCHANGED <<config, registries, tasks, submitted, retired, queued,
                   shutdowns, invocations, announcer>>

\* queue_progress is called at the time the clock shows.
QueueProgressAtNow(env, tool_name, message) ==
    LET s == queue_progress(Quiet(Self), tool_name, message, now)
        accepted == s.progress_queues # progress_queues
    IN  /\ Len(s.tasks) <= env.max_tasks
        /\ accepted => queued < env.max_queued
        /\ Becomes(s)
        /\ queued' = IF accepted THEN queued + 1 ELSE queued
        /\ UNCHANGED <<now, config, shutdowns, announcer>>

QueueProgress(env, tool_name, message) ==
    /\ QueueProgressAtNow(env, tool_name, message)
    /\ UNCHANGED invocations

\* A call of queue_progress that reaches line 207 when no task can be made.
QueueProgressNoTask(env, tool_name, message) ==
    /\ ShouldAnnounce[message]
    /\ tool_name \notin DOMAIN progress_queues
    /\ NotRecentlyAnnounced(Self, message, now) = TRUE
    /\ Becomes(queue_progress_create_task_raises(Quiet(Self), tool_name,
                                                  message, now))
    /\ UNCHANGED <<now, config, queued, shutdowns, invocations, announcer>>

MarkCompleted(tool_name) ==
    /\ Becomes(mark_completed(Quiet(Self), tool_name))
    /\ UNCHANGED <<now, config, queued, shutdowns, invocations, announcer>>

Cleanup(env) ==
    /\ shutdowns < env.max_shutdowns
    /\ Becomes(cleanup(Quiet(Self)))
    /\ shutdowns' = shutdowns + 1
    /\ UNCHANGED <<now, config, queued, invocations, announcer>>

Runnable(t) == t \in Live(Self) /\ ~tasks[t].must_cancel

\* The task starts, or wakes from the idle sleep or the cooldown.
LaneLoop(t) ==
    /\ Runnable(t)
    /\ tasks[t].pc \in {"created", "idle_sleep", "cooldown"}
    /\ Becomes(LoopTop(Quiet(Self), t))
    /\ UNCHANGED <<now, config, queued, shutdowns, invocations, announcer>>

\* asyncio.sleep(batch_window_seconds) returns, no earlier than asked.
LaneBatchWake(t, speak_ok) ==
    /\ Runnable(t)
    /\ tasks[t].pc = "batch_sleep"
    /\ now >= tasks[t].wake
    /\ Becomes(AfterBatchWindow(Quiet(Self), t, speak_ok))
    /\ UNCHANGED <<now, config, queued, shutdowns, invocations, announcer>>

LaneGenerated(t, response, speak_ok) ==
    /\ Runnable(t)
    /\ tasks[t].pc = "generating"
    /\ Becomes(AfterGenerate(Quiet(Self), t, response, speak_ok))
    /\ UNCHANGED <<now, config, queued, shutdowns, invocations, announcer>>

LaneCancelled(t) ==
    /\ t \in Live(Self)
    /\ tasks[t].must_cancel
    /\ Becomes(Cancelled(Quiet(Self), t))
    /\ UNCHANGED <<now, config, queued, shutdowns, invocations, announcer>>

Step(env) ==
    \/ Tick(env)
    \/ \E tool_name \in env.tools, message \in env.messages :
          QueueProgress(env, tool_name, message)
    \/ \E tool_name \in env.tools : MarkCompleted(tool_name)
    \/ Cleanup(env)
    \/ \E t \in 1..Len(tasks) : LaneLoop(t)
    \/ \E t \in 1..Len(tasks), speak_ok \in env.speech :
          LaneBatchWake(t, speak_ok)
    \/ \E t \in 1..Len(tasks), response \in env.responses,
          speak_ok \in env.speech :
          LaneGenerated(t, response, speak_ok)
    \/ \E t \in 1..Len(tasks) : LaneCancelled(t)

Init == InitOf(Everything)
Next == Step(Everything)
Spec == Init /\ [][Next]_vars

\* One tool with rephrasing on and collaborators that answer: its lanes are
\* followed through more tasks and messages.
OneTool ==
    [ tools |-> {"X"}, messages |-> {"Loading", "Comparing"},
      natural |-> {TRUE}, responses |-> {"content"}, speech |-> {TRUE},
      max_tasks |-> DeepTasks, max_queued |-> DeepQueued,
      max_time |-> MaxTime, max_shutdowns |-> MaxShutdowns ]

InitOneTool == InitOf(OneTool)
NextOneTool == Step(OneTool)
SpecOneTool == InitOneTool /\ [][NextOneTool]_vars

\* One tool that reports three different texts, for what a batch holds.
Batching ==
    [ tools |-> {"X"}, messages |-> {"Loading", "Comparing", "Saving"},
      natural |-> {TRUE}, responses |-> LLMResponses, speech |-> BOOLEAN,
      max_tasks |-> MaxTasks, max_queued |-> MaxQueued,
      max_time |-> MaxTime, max_shutdowns |-> MaxShutdowns ]

InitBatching == InitOf(Batching)
NextBatching == Step(Batching)
SpecBatching == InitBatching /\ [][NextBatching]_vars

\* One tool that reports the steps of its work in their order, more of them
\* within one batch window than a batch takes.
Flooded ==
    [ tools |-> {"X"},
      script |-> <<"Loading", "Comparing", "Saving", "Sorting", "Merging",
                   "Exporting", "Packing">>,
      natural |-> BOOLEAN, responses |-> {"content"}, speech |-> {TRUE},
      max_tasks |-> MaxTasks, max_queued |-> MaxFlood,
      max_time |-> MaxTime, max_shutdowns |-> 0 ]

\* The tool reports its next step.
ReportNext(env, tool_name) ==
    /\ queued < Len(env.script)
    /\ QueueProgress(env, tool_name, env.script[queued + 1])

InitFlooded == InitOf(Flooded)
NextFlooded ==
    \/ Tick(Flooded)
    \/ \E tool_name \in Flooded.tools : ReportNext(Flooded, tool_name)
    \/ \E tool_name \in Flooded.tools : MarkCompleted(tool_name)
    \/ \E t \in 1..Len(tasks) : LaneLoop(t)
    \/ \E t \in 1..Len(tasks), speak_ok \in Flooded.speech :
          LaneBatchWake(t, speak_ok)
    \/ \E t \in 1..Len(tasks), response \in Flooded.responses,
          speak_ok \in Flooded.speech :
          LaneGenerated(t, response, speak_ok)
SpecFlooded == InitFlooded /\ [][NextFlooded]_vars

\* One tool followed for longer than two dedup windows, so that stamps get
\* old enough to be forgotten.
Aged ==
    [ tools |-> {"X"}, messages |-> {"Loading", "Comparing"},
      natural |-> BOOLEAN, responses |-> {"content"}, speech |-> {TRUE},
      max_tasks |-> MaxTasks, max_queued |-> MaxQueued,
      max_time |-> MaxAge, max_shutdowns |-> MaxShutdowns ]

InitAged == InitOf(Aged)
NextAged == Step(Aged)
SpecAged == InitAged /\ [][NextAged]_vars

\* One tool whose manager is shut down and used again, twice.
Restarted ==
    [ tools |-> {"X"}, messages |-> {"Loading"},
      natural |-> BOOLEAN, responses |-> {"content"}, speech |-> {TRUE},
      max_tasks |-> DeepTasks, max_queued |-> DeepQueued,
      max_time |-> MaxTime, max_shutdowns |-> MaxRestarts ]

InitRestarted == InitOf(Restarted)
NextRestarted == Step(Restarted)
SpecRestarted == InitRestarted /\ [][NextRestarted]_vars

\* One tool, and an event loop that at times cannot make a task.
Overloaded ==
    [ tools |-> {"X"}, messages |-> {"Loading", "Comparing"},
      natural |-> BOOLEAN, responses |-> {"content"}, speech |-> {TRUE},
      max_tasks |-> MaxTasks, max_queued |-> MaxQueued,
      max_time |-> MaxTime, max_shutdowns |-> MaxShutdowns ]

InitOverloaded == InitOf(Overloaded)
NextOverloaded ==
    \/ Step(Overloaded)
    \/ \E tool_name \in Overloaded.tools, message \in Overloaded.messages :
          QueueProgressNoTask(Overloaded, tool_name, message)
SpecOverloaded == InitOverloaded /\ [][NextOverloaded]_vars

\* ------------------------------------------------------ MCPServerWrapper

\* _fixed_tool_called is entered and awaits the tool's result (wrapper.py
\* lines 79-102).
ToolCalled(env, tool_name) ==
    /\ Len(invocations) < env.max_calls
    /\ invocations' = Append(invocations,
                             [tool_name |-> tool_name, pc |-> "calling",
                              path |-> "direct", outcome |-> "none",
                              completions |-> 0, executions |-> 0,
                              \* For the properties: another call of the
                              \* tool has returned during this one, and the
                              \* texts this one got queued since.
                              overtaken |-> FALSE, queued_since |-> <<>>])
    /\ Becomes(Quiet(Self))
    /\ UNCHANGED <<now, config, queued, shutdowns, announcer>>

\* progress_handler of invocation c is called with a message; where the
\* environment delivers notifications late, also after the call has returned.
ToolProgress(env, c, message) ==
    /\ IF invocations[c].pc \in {"calling", "fallback"}
       THEN TRUE ELSE env.late_progress
    /\ QueueProgressAtNow(env, invocations[c].tool_name, message)
    /\ invocations' =
          IF /\ invocations[c].pc \in {"calling", "fallback"}
             /\ invocations[c].overtaken
             /\ progress_queues' # progress_queues
          THEN [invocations EXCEPT ![c].queued_since = Append(@, message)]
          ELSE invocations

\* How an awaited call of _fixed_tool_called ends: a value is returned
\* (lines 114-126, 140-154) or an exception leaves the try statement (the
\* ToolError of lines 109-111 and 128-130, or whatever the call raised).
Outcomes == {"result", "ToolError"}

\* The direct path raises AttributeError, which lines 132-134 swallow: the
\* invocation goes on to await original_tool at line 137.  The finally clause
\* has not run.  The error comes from the call of line 102 before the server
\* ran the tool, or, with `ran`, from the call or the unwrapping of lines
\* 109-126 after it did.  `executions` counts the runs of the tool.
ToolFallsBack(c, ran) ==
    /\ invocations[c].pc = "calling"
    /\ invocations' = [invocations EXCEPT
                         ![c].pc = "fallback", ![c].path = "fallback",
                         ![c].executions = IF ran THEN 1 ELSE 0]
    /\ Becomes(Quiet(Self))
    /\ UNCHANGED <<now, config, queued, shutdowns, announcer>>

\* For the properties: the calls of the same tool that are still awaited when
\* call c ends are noted as overtaken.
Overtaken(calls, c) ==
    [d \in 1..Len(calls) |->
        IF /\ d # c
           /\ calls[d].tool_name = calls[c].tool_name
           /\ calls[d].pc \in {"calling", "fallback"}
        THEN [calls[d] EXCEPT !.overtaken = TRUE]
        ELSE calls[d]]

\* The same ending with mark_completed after the return statements of the
\* try body instead of in a finally clause: an exception skips it.
ToolReturnedSkipsOnError(c, outcome) ==
    /\ invocations[c].pc \in {"calling", "fallback"}
    /\ invocations' = [Overtaken(invocations, c) EXCEPT
                         ![c].pc = "returned", ![c].outcome = outcome,
                         ![c].executions = @ + 1,
                         ![c].overtaken = FALSE, ![c].queued_since = <<>>,
                         ![c].completions =
                             IF outcome = "result" THEN @ + 1 ELSE @]
    /\ Becomes(IF outcome = "result"
               THEN mark_completed(Quiet(Self), invocations[c].tool_name)
               ELSE Quiet(Self))
    /\ UNCHANGED <<now, config, queued, shutdowns, announcer>>

\* The finally clause of _fixed_tool_called, lines 156-160, however the call
\* ended; `completions` counts the mark_completed calls of the invocation.
ToolReturned(c, outcome) ==
    /\ invocations[c].pc \in {"calling", "fallback"}
    /\ invocations' = [Overtaken(invocations, c) EXCEPT
                         ![c].pc = "returned", ![c].outcome = outcome,
                         ![c].executions = @ + 1,
                         ![c].overtaken = FALSE, ![c].queued_since = <<>>,
                         ![c].completions = @ + 1]
    /\ Becomes(mark_completed(Quiet(Self), invocations[c].tool_name))
    /\ UNCHANGED <<now, config, queued, shutdowns, announcer>>

\* The chat completion awaited at progress_manager.py line 107 (made at
\* announcements.py line 230) never answers: the lane stays at its await.
LaneGenerationHangs(t) ==
    /\ Runnable(t)
    /\ tasks[t].pc = "generating"
    /\ Becomes([Quiet(Self) EXCEPT !.tasks[t].pc = "hung"])
    /\ UNCHANGED <<now, config, queued, shutdowns, invocations, announcer>>

\* The clock, followed only while a lane sleeps towards a later time.
TickWhileWaiting(env) ==
    /\ \E t \in Live(Self) :
          tasks[t].pc = "batch_sleep" /\ tasks[t].wake > now
    /\ Tick(env)

\* One tool called through the wrapper in a session that is not shut down;
\* a progress notification may reach the handler after its call returned.
\* No more messages are queued than the clock has seconds for their batch
\* windows.
Wrapped ==
    [ tools |-> {"X"}, messages |-> {"Loading", "Comparing"},
      natural |-> BOOLEAN, responses |-> {"content"}, speech |-> {TRUE},
      max_tasks |-> MaxTasks, max_queued |-> MaxTime,
      max_time |-> MaxTime, max_shutdowns |-> 0,
      max_calls |-> MaxCalls, late_progress |-> TRUE ]

LaneStep(env, t) ==
    \/ LaneLoop(t)
    \/ \E speak_ok \in env.speech : LaneBatchWake(t, speak_ok)
    \/ \E response \in env.responses, speak_ok \in env.speech :
          LaneGenerated(t, response, speak_ok)

\* The steps of wrapped tools and of the lanes they start.
WrappedStep(env) ==
    \/ TickWhileWaiting(env)
    \/ \E tool_name \in env.tools : ToolCalled(env, tool_name)
    \/ \E c \in 1..Len(invocations), message \in env.messages :
          ToolProgress(env, c, message)
    \/ \E c \in 1..Len(invocations), ran \in BOOLEAN : ToolFallsBack(c, ran)
    \/ \E c \in 1..Len(invocations), outcome \in Outcomes :
          ToolReturned(c, outcome)
    \/ \E t \in 1..Len(tasks) : LaneStep(env, t)
    \/ \E t \in 1..Len(tasks) : LaneGenerationHangs(t)

\* The event loop runs every task that can run, and sleeps end.
Fair(env) ==
    /\ WF_vars(TickWhileWaiting(env))
    /\ \A t \in 1..env.max_tasks : WF_vars(LaneStep(env, t))

InitWrapped == InitOf(Wrapped)
NextWrapped == WrappedStep(Wrapped)
FairWrapped == Fair(Wrapped)

SpecWrapped == InitWrapped /\ [][NextWrapped]_vars /\ FairWrapped

\* One call of one wrapped tool, followed to the end of its lanes.
Signalled ==
    [ tools |-> {"X"}, messages |-> {"Loading", "Comparing"},
      natural |-> BOOLEAN, responses |-> {"content"}, speech |-> {TRUE},
      max_tasks |-> MaxTasks, max_queued |-> MaxTime,
      max_time |-> MaxTime, max_shutdowns |-> 0,
      max_calls |-> 1, late_progress |-> TRUE ]

InitSignalled == InitOf(Signalled)
NextSignalled == WrappedStep(Signalled)
FairSignalled == Fair(Signalled)
SpecSignalled == InitSignalled /\ [][NextSignalled]_vars /\ FairSignalled

\* One tool whose manager is shut down once and used again, with an event
\* loop that runs every task that can run.  The clock has a second for the
\* batch window of every message.
Reused ==
    [ tools |-> {"X"}, messages |-> {"Loading", "Comparing"},
      natural |-> BOOLEAN, responses |-> {"content"}, speech |-> {TRUE},
      max_tasks |-> MaxReused, max_queued |-> MaxReused,
      max_time |-> MaxReused, max_shutdowns |-> MaxShutdowns ]

InitReused == InitOf(Reused)
NextReused ==
    \/ TickWhileWaiting(Reused)
    \/ \E tool_name \in Reused.tools, message \in Reused.messages :
          QueueProgress(Reused, tool_name, message)
    \/ \E tool_name \in Reused.tools : MarkCompleted(tool_name)
    \/ Cleanup(Reused)
    \/ \E t \in 1..Len(tasks) : LaneStep(Reused, t)
    \/ \E t \in 1..Len(tasks) : LaneCancelled(t)
FairReused ==
    /\ Fair(Reused)
    /\ \A t \in 1..Reused.max_tasks : WF_vars(LaneCancelled(t))
SpecReused == InitReused /\ [][NextReused]_vars /\ FairReused

\* ------------------------------------------------ FunctionAgent.llm_node

\* The text of the last user message of chat_ctx; "" when none is found.
Queries == {"", "Q1", "Q2"}

\* The names of chunk.delta.tool_calls; <<>> for a chunk with no tool call.
ToolCallChunks == {<<>>, <<"X">>, <<"X", "Y">>}

IntentFallback == "OK, let me work on that for you."
ToolFallback == "Let me check that for you."

\* generate_query_intent_announcement and generate_tool_announcement: both
\* catch every Exception of the completion and return their fixed phrase.
generate_query_intent_announcement(response) ==
    IF response = "content"
    THEN strip(strip(strip(LLMContent, Whitespace), {"\""}), {"'"})
    ELSE IntentFallback

generate_tool_announcement(response) ==
    IF response = "content"
    THEN strip(strip(strip(LLMContent, Whitespace), {"\""}), {"'"})
    ELSE ToolFallback

IntentMessage ==
    [response \in LLMResponses |-> generate_query_intent_announcement(response)]
ToolMessage ==
    [response \in LLMResponses |-> generate_tool_announcement(response)]

\* The agent as one value.
Agent ==
    [ announced_phrases      |-> announced_phrases,
      current_user_query     |-> current_user_query,
      query_intent_announced |-> query_intent_announced,
      streams                |-> streams,
      narration              |-> narration,
      say_calls              |-> say_calls ]

\* A step of the agent starts with nothing said yet.
Calm(a) == [a EXCEPT !.say_calls = <<>>]

AgentBecomes(a) ==
    /\ announced_phrases' = a.announced_phrases
    /\ current_user_query' = a.current_user_query
    /\ query_intent_announced' = a.query_intent_announced
    /\ streams' = a.streams
    /\ narration' = a.narration
    /\ say_calls' = a.say_calls
    /\ UNCHANGED <<enable_tool_announcements, enable_query_intent_announcement>>

\* As ExtractQuery, the flag reset whenever a text is found.
ExtractQueryAlwaysResets(a, text) ==
    IF text = "" THEN a
    ELSE [a EXCEPT
           !.query_intent_announced = FALSE,
           !.current_user_query = text,
           !.narration = IF text # a.current_user_query
                         THEN Append(@, [kind |-> "query", text |-> text])
                         ELSE @]

\* As ExtractQuery, the flag reset also when no text is found.
ExtractQueryResetsOnNoText(a, text) ==
    IF text = "" THEN [a EXCEPT !.query_intent_announced = FALSE]
    ELSE [a EXCEPT
           !.query_intent_announced =
               IF text # a.current_user_query THEN FALSE ELSE @,
           !.current_user_query = text,
           !.narration = IF text # a.current_user_query
                         THEN Append(@, [kind |-> "query", text |-> text])
                         ELSE @]

\* Lines 81-139: a text that is found is saved, and the flag is reset when
\* it differs from the saved one.  The narration notes the change.
ExtractQuery(a, text) ==
    IF text = "" THEN a
    ELSE [a EXCEPT
           !.query_intent_announced =
               IF text # a.current_user_query THEN FALSE ELSE @,
           !.current_user_query = text,
           !.narration = IF text # a.current_user_query
                         THEN Append(@, [kind |-> "query", text |-> text])
                         ELSE @]

\* Lines 77-155: the generator runs to its first await, for the first chunk
\* of Agent.default.llm_node.
StartStream(a, text) ==
    LET saved == ExtractQuery(a, text)
    IN  [saved EXCEPT !.streams = Append(@,
          [ pc              |-> "receiving",
            user_query      |-> IF text # "" THEN text
                                ELSE a.current_user_query,
            announced_tools |-> {},
            chunk           |-> <<>>,
            tool_call       |-> 0,
            received        |-> <<>>,
            yielded         |-> <<>> ])]

\* As Yield, a chunk that holds tool calls kept from the consumer.
YieldTextOnly(a, i) ==
    [a EXCEPT !.streams[i] = [@ EXCEPT
        !.pc = "receiving",
        !.yielded = IF a.streams[i].chunk = <<>>
                    THEN Append(@, a.streams[i].chunk) ELSE @,
        !.tool_call = 0]]

\* Line 262: the chunk goes to the consumer; resumed, the generator awaits
\* the next chunk.
Yield(a, i) ==
    [a EXCEPT !.streams[i] = [@ EXCEPT
        !.pc = "receiving",
        !.yielded = Append(@, a.streams[i].chunk),
        !.tool_call = 0]]

\* Lines 197-260: the loop over the tool calls of the chunk from the k-th
\* on, to the next await or to the yield.
RECURSIVE AnnounceTools(_, _, _)
AnnounceTools(a, i, k) ==
    LET stream == a.streams[i]
    IN  IF k > Len(stream.chunk) THEN Yield(a, i)
        ELSE IF stream.chunk[k] \in stream.announced_tools
        THEN AnnounceTools(a, i, k + 1)
        ELSE LET added == [a EXCEPT !.streams[i].announced_tools =
                               @ \cup {stream.chunk[k]}]
             IN  IF enable_tool_announcements
                 THEN [added EXCEPT
                        !.streams[i].pc = "tool",
                        !.streams[i].tool_call = k]
                 ELSE AnnounceTools(added, i, k + 1)

\* As OnChunk, the flag tested and not set before the phrase is awaited.
OnChunkLeavesFlag(a, i, chunk) ==
    LET stream == a.streams[i]
        got == [a EXCEPT !.streams[i].received = Append(@, chunk),
                         !.streams[i].chunk = chunk]
    IN  IF chunk = <<>> THEN Yield(got, i)
        ELSE IF /\ ~a.query_intent_announced
                /\ enable_query_intent_announcement
                /\ stream.user_query # ""
        THEN [got EXCEPT
               !.streams[i].pc = "intent",
               !.narration = Append(@, [ kind |-> "intent", stream |-> i,
                                         text |-> stream.user_query ])]
        ELSE AnnounceTools(got, i, 1)

\* Lines 155-185: a chunk arrives; on a tool call the intent is announced
\* if it has not been, the flag being set before the phrase is awaited.
OnChunk(a, i, chunk) ==
    LET stream == a.streams[i]
        got == [a EXCEPT !.streams[i].received = Append(@, chunk),
                         !.streams[i].chunk = chunk]
    IN  IF chunk = <<>> THEN Yield(got, i)
        ELSE IF /\ ~a.query_intent_announced
                /\ enable_query_intent_announcement
                /\ stream.user_query # ""
        THEN [got EXCEPT
               !.query_intent_announced = TRUE,
               !.streams[i].pc = "intent",
               !.narration = Append(@, [ kind |-> "intent", stream |-> i,
                                         text |-> stream.user_query ])]
        ELSE AnnounceTools(got, i, 1)

\* activity.say(text), which returns or raises.
Say(a, i, text, say_ok) ==
    [a EXCEPT !.say_calls = Append(@, [ stream |-> i, text |-> text,
                                        ok |-> say_ok ])]

\* As AfterIntent, the flag cleared again when the phrase or the say call
\* failed, so that the next tool call tries once more.
AfterIntentRetries(a, i, response, say_ok) ==
    LET after == AnnounceTools(Say(a, i, IntentMessage[response], say_ok), i, 1)
    IN  IF response = "content" /\ say_ok THEN after
        ELSE [after EXCEPT !.query_intent_announced = FALSE]

\* Lines 178-188: the intent phrase has come and is said; an exception of
\* activity.say is logged by the handler of line 187.
AfterIntent(a, i, response, say_ok) ==
    AnnounceTools(Say(a, i, IntentMessage[response], say_ok), i, 1)

\* Lines 241-258: the tool phrase has come, is tracked and said.  The
\* handler of line 256 says the fixed phrase; an exception of that call
\* leaves the loop, and the handler of lines 266-268 raises it again.
AfterTool(a, i, response, say_ok, again_ok) ==
    LET message == ToolMessage[response]
        tracked == [a EXCEPT !.announced_phrases = @ \cup {message}]
        said == Say(tracked, i, message, say_ok)
        k == a.streams[i].tool_call
    IN  IF say_ok THEN AnnounceTools(said, i, k + 1)
        ELSE LET again == Say(said, i, ToolFallback, again_ok)
             IN  IF again_ok THEN AnnounceTools(again, i, k + 1)
                 ELSE [again EXCEPT !.streams[i].pc = "raised"]

\* What the environment of the agent does.
Session ==
    [ queries |-> Queries, chunks |-> ToolCallChunks,
      responses |-> LLMResponses, speech |-> BOOLEAN,
      max_streams |-> MaxStreams, max_chunks |-> MaxChunks ]

\* llm_node is called and its generator is started.
LlmNode(env, text) ==
    /\ Len(streams) < env.max_streams
    /\ AgentBecomes(StartStream(Calm(Agent), text))
    /\ UNCHANGED <<manager, invocations>>

\* Agent.default.llm_node gives the next chunk.
StreamChunk(env, i, chunk) ==
    /\ streams[i].pc = "receiving"
    /\ Len(streams[i].received) < env.max_chunks
    /\ AgentBecomes(OnChunk(Calm(Agent), i, chunk))
    /\ UNCHANGED <<manager, invocations>>

\* Agent.default.llm_node has no more chunks: line 264.
StreamEnds(i) ==
    /\ streams[i].pc = "receiving"
    /\ AgentBecomes([Calm(Agent) EXCEPT !.streams[i].pc = "done"])
    /\ UNCHANGED <<manager, invocations>>

IntentGenerated(i, response, say_ok) ==
    /\ i <= Len(streams)
    /\ streams[i].pc = "intent"
    /\ AgentBecomes(AfterIntent(Calm(Agent), i, response, say_ok))
    /\ UNCHANGED <<manager, invocations>>

ToolGenerated(i, response, say_ok, again_ok) ==
    /\ i <= Len(streams)
    /\ streams[i].pc = "tool"
    /\ AgentBecomes(AfterTool(Calm(Agent), i, response, say_ok, again_ok))
    /\ UNCHANGED <<manager, invocations>>

\* The chat completion awaited at line 178 or 241 never answers: the
\* generator stays at its await.
GenerationHangs(i) ==
    /\ streams[i].pc \in {"intent", "tool"}
    /\ AgentBecomes([Calm(Agent) EXCEPT !.streams[i].pc = "hung"])
    /\ UNCHANGED <<manager, invocations>>

\* A completion that answers is followed by the generator's next step.
StreamStep(env, i) ==
    \/ \E response \in env.responses, say_ok \in env.speech :
          IntentGenerated(i, response, say_ok)
    \/ \E response \in env.responses, say_ok, again_ok \in env.speech :
          ToolGenerated(i, response, say_ok, again_ok)

InitAgent ==
    /\ ProgressManagerInit(OneTool)
    /\ invocations = <<>>
    /\ FunctionAgentInit(BOOLEAN)

NextAgent ==
    \/ \E text \in Session.queries : LlmNode(Session, text)
    \/ \E i \in 1..Len(streams), chunk \in Session.chunks :
          StreamChunk(Session, i, chunk)
    \/ \E i \in 1..Len(streams) : StreamEnds(i)
    \/ \E i \in 1..Len(streams) : StreamStep(Session, i)
    \/ \E i \in 1..Len(streams) : GenerationHangs(i)

FairAgent == \A i \in 1..Session.max_streams : WF_vars(StreamStep(Session, i))

SpecAgent == InitAgent /\ [][NextAgent]_vars /\ FairAgent

\* -------------------------------------------------------------- properties

Last(seq) == seq[Len(seq)]
IsPrefix(a, b) == Len(a) <= Len(b) /\ SubSeq(b, 1, Len(a)) = a
Texts(arrived) == [i \in 1..Len(arrived) |-> arrived[i].message]

RECURSIVE Flatten(_)
Flatten(seqs) ==
    IF seqs = <<>> THEN <<>> ELSE Head(seqs) \o Flatten(Tail(seqs))

\* The lane tasks of a tool that have not finished and are not cancelled.
LiveLanes(tool_name) ==
    {t \in Live(Self) : tasks[t].tool_name = tool_name /\ ~tasks[t].must_cancel}

\* C1: in every reachable state at most one live lane task exists per tool,
\* and a message for a tool that has a lane starts no second task.  Tasks
\* that cleanup has cancelled are not counted, though they are unfinished.
C1_OneLiveTaskPerTool ==
    /\ \A tool_name \in Tools : Cardinality(LiveLanes(tool_name)) <= 1
    /\ \A tool_name \in DOMAIN active_speakers, message \in Messages :
          Len(queue_progress(Self, tool_name, message, now).tasks) = Len(tasks)

\* C2: for a tool that has a lane, mark_completed followed at once by a
\* queue_progress that is accepted makes a fresh lane: a new task, a queue
\* holding only the new message, a stop flag that is not set and no history.
C2_SubmitAfterCompleteStartsFreshLane ==
    \A tool_name \in DOMAIN active_speakers, message \in Messages :
        LET completed == mark_completed(Self, tool_name)
            s == queue_progress(completed, tool_name, message, now)
        IN  s.progress_queues # completed.progress_queues
            => /\ s.active_speakers[tool_name] > Len(tasks)
               /\ s.progress_queues[tool_name] = <<message>>
               /\ s.speaker_stop_flags[tool_name] = FALSE
               /\ tool_name \notin DOMAIN s.announcement_history
               /\ tool_name \notin DOMAIN s.raw_message_history

\* C3: once mark_completed has been called for a tool that has a lane, that
\* lane makes no further speak_callback call.
C3_NoSpeechAfterCompletion ==
    \A i \in 1..Len(spoken) : ~tasks[spoken[i].task].completed

\* C4: when a lane ends on its stop flag, none of the five per-tool
\* dictionaries has an entry for its tool, and the next queue_progress
\* accepted for that tool starts a lane whose natural and raw histories are
\* empty.
C4_StoppedLaneLeavesNothing ==
    [][\A tool_name \in Tools :
        /\ (tool_name \in retired' /\ tool_name \notin retired)
              => /\ tool_name \notin DOMAIN progress_queues'
                 /\ tool_name \notin DOMAIN speaker_stop_flags'
                 /\ tool_name \notin DOMAIN active_speakers'
                 /\ tool_name \notin DOMAIN announcement_history'
                 /\ tool_name \notin DOMAIN raw_message_history'
        /\ (tool_name \in retired /\ tool_name \notin retired')
              => /\ Len(tasks') = Len(tasks) + 1
                 /\ tool_name \notin DOMAIN announcement_history'
                 /\ tool_name \notin DOMAIN raw_message_history']_vars

\* C5 as stated: of two queue_progress calls with the same text, for any
\* tools, made within the window of each other, the second queues nothing.
C5_SecondOfAnyTwoIsSkipped ==
    \A message \in Messages, first \in Tools, second \in Tools,
       gap \in 0..dedup_window_seconds :
        LET s1 == queue_progress(Self, first, message, now)
            s2 == queue_progress(s1, second, message, now + gap)
        IN  s2.progress_queues = s1.progress_queues

\* C5 amended: a queue_progress call made within the window of a call that
\* queued the same text, with no cleanup in between, queues nothing.
C5_SecondAfterQueuedIsSkipped ==
    [][\A tool_name \in Tools, message \in Messages :
        ( /\ message \in DOMAIN submitted
          /\ now - submitted[message].queued_at <= dedup_window_seconds
          /\ QueueProgress(Everything, tool_name, message) )
        => progress_queues' = progress_queues]_vars

\* The latest step was a call that repeated, later and within the window, a
\* text queued before, and it was skipped.
C5_RepeatSkipped ==
    \E i \in 1..Len(skipped) :
        LET message == skipped[i].message
        IN  /\ message \in DOMAIN submitted
            /\ now > submitted[message].queued_at
            /\ now - submitted[message].queued_at <= dedup_window_seconds

\* C6: a text queued for one tool makes queue_progress with the same text for
\* another tool, no later than the window after, change nothing: no lane, no
\* queue entry, no new stamp.
C6_DedupAcrossTools ==
    [][\A tool_name \in Tools, message \in Messages :
        ( /\ message \in DOMAIN submitted
          /\ submitted[message].tool_name # tool_name
          /\ now - submitted[message].queued_at <= dedup_window_seconds
          /\ QueueProgress(Everything, tool_name, message) )
        => UNCHANGED <<registries, tasks>>]_vars

\* The latest step was a call for a tool without a lane, skipped because
\* another tool had queued the text earlier, within the window.
C6_OtherToolSkipped ==
    \E i \in 1..Len(skipped) :
        LET message == skipped[i].message
            tool_name == skipped[i].tool_name
        IN  /\ message \in DOMAIN submitted
            /\ submitted[message].tool_name # tool_name
            /\ now > submitted[message].queued_at
            /\ now - submitted[message].queued_at <= dedup_window_seconds
            /\ announced_progress[message] = submitted[message].queued_at
            /\ tool_name \notin DOMAIN progress_queues
            /\ \A t \in 1..Len(tasks) : tasks[t].tool_name # tool_name

\* The texts of the model that hold a skip pattern, in whatever case.
Granular ==
    {message \in Messages :
        \E pattern \in skip_patterns : Contains(lower(message), pattern)}

\* C7: queue_progress with a text holding a skip pattern, in whatever case,
\* changes nothing: no task, no queue entry, no stamp, no speech.
C7_GranularChangesNothing ==
    [][\A tool_name \in Tools, message \in Granular :
        QueueProgress(Everything, tool_name, message)
        => /\ UNCHANGED <<registries, tasks>>
           /\ spoken' = <<>>
           /\ generated' = <<>>]_vars

\* The latest step was a call with such a text, in another case than the
\* pattern's, for a tool never seen; there is still no task and no entry.
C7_GranularSkipped ==
    \E i \in 1..Len(skipped) :
        /\ skipped[i].message \in Granular
        /\ \A pattern \in skip_patterns :
              ~Contains(skipped[i].message, pattern)
        /\ tasks = <<>>
        /\ Self.progress_queues = EmptyDict
        /\ Self.announced_progress = EmptyDict

\* The first task of its tool, with rephrasing on, for which three different
\* texts were queued, the second and third less than the batch window after
\* the first, and which was neither completed nor cancelled.
ThreeInBatchWindow(t) ==
    LET arrived == tasks[t].arrived
    IN  /\ enable_natural_language
        /\ ~Done(Self, t)
        /\ \A u \in 1..(t - 1) : tasks[u].tool_name # tasks[t].tool_name
        /\ ~tasks[t].completed
        /\ ~tasks[t].must_cancel
        /\ Len(arrived) >= 3
        /\ Cardinality({arrived[i].message : i \in 1..3}) = 3
        /\ arrived[2].at < arrived[1].at + batch_window_seconds
        /\ arrived[3].at < arrived[1].at + batch_window_seconds

FirstThree(t) == SubSeq(Texts(tasks[t].arrived), 1, 3)

\* C8: three different texts queued for a fresh tool, the second and third
\* within the batch window of the first, with no completion or cleanup, go
\* to generate_progress_announcement in one call, the first of the lane, all
\* three in the order queued: they are the whole batch when nothing more was
\* queued before the call, and its start otherwise.  No other call of the
\* lane holds any of them.
C8_ThreeQueuedOneCall ==
    /\ \A i \in 1..Len(generated) :
          LET t == generated[i].task
          IN  (ThreeInBatchWindow(t) /\ Len(tasks[t].batches) = 1)
              => /\ IsPrefix(FirstThree(t), generated[i].messages)
                 /\ Len(tasks[t].arrived) = 3
                       => generated[i].messages = FirstThree(t)
    /\ \A t \in 1..Len(tasks) :
          (ThreeInBatchWindow(t) /\ tasks[t].batches # <<>>)
          => /\ IsPrefix(FirstThree(t), tasks[t].batches[1])
             /\ IsPrefix(Flatten(tasks[t].batches), Texts(tasks[t].arrived))

\* The latest step made that call.
C8_ThreeHandedOver ==
    \E i \in 1..Len(generated) :
        /\ ThreeInBatchWindow(generated[i].task)
        /\ Len(generated[i].messages) = 3
        /\ generated[i].messages = FirstThree(generated[i].task)

\* C9: the batches a lane task has passed on are, one after the other, a
\* prefix of the messages queued for its tool since the task was made.
C9_BatchesFollowArrival ==
    \A t \in Live(Self) :
        IsPrefix(Flatten(tasks[t].batches), Texts(tasks[t].arrived))

\* C10: when the chat completion raises for a batch, the lane speaks the last
\* raw message of the batch.
C10_FailureSpeaksLastRawMessage ==
    \A i \in 1..Len(spoken) :
        spoken[i].response = "error"
        => spoken[i].text = Last(spoken[i].messages)

\* C11: when speak_callback raises, the lane is not aborted: the task that
\* made the call keeps running and its tool keeps its queue.
C11_SpeechFailureKeepsLane ==
    \A i \in 1..Len(spoken) :
        /\ tasks[spoken[i].task].pc # "done"
        /\ tasks[spoken[i].task].tool_name \in DOMAIN progress_queues

\* C16: mark_completed for a tool that has no lane changes nothing, the stop
\* flags included.
C16_CompleteWithoutLaneChangesNothing ==
    [][\A tool_name \in Tools :
        ( /\ tool_name \notin DOMAIN progress_queues
          /\ tool_name \notin DOMAIN active_speakers
          /\ MarkCompleted(tool_name) )
        => UNCHANGED <<registries, tasks>>]_vars

\* C14: after cleanup has returned, no task that was alive when it was called
\* makes a further speak_callback call.
C14_NoSpeechAfterShutdown ==
    \A i \in 1..Len(spoken) : ~tasks[spoken[i].task].shut_down

C13_TaskFailureSurfaced ==
    \A i \in 1..Len(errors) :
        errors[i].call = "create_task" => errors[i].raised

\* Every call of the tool that has started has returned, hence has signalled
\* its completion, and there is one.
AllReturned(tool_name) ==
    /\ \E c \in 1..Len(invocations) : invocations[c].tool_name = tool_name
    /\ \A c \in 1..Len(invocations) :
          invocations[c].tool_name = tool_name
          => invocations[c].pc = "returned"

Hung == {t \in Live(Self) : tasks[t].pc = "hung"}

\* C17: once every call of a tool has signalled its completion, eventually
\* no lane task of the tool is alive, also when a progress message is
\* delivered after the completion.  Lanes whose phrase generation never
\* answers are left aside.
C17_LanesEndWithTheirCalls ==
    <>[]AllReturned("X") => <>[](LiveLanes("X") = {} \/ Hung # {})

\* C18: a lane whose generate_progress_announcement call never answers does
\* not stay at that call for ever.
C18_GenerationTimesOut ==
    \A t \in 1..MaxTasks :
        (t <= Len(tasks) /\ tasks[t].pc = "hung")
        ~> (t <= Len(tasks) /\ tasks[t].pc # "hung")

\* C12: no failure of a phrase generation or of a say call ends an llm_node
\* stream: no generator raises, whatever the completions and activity.say do.
\* (queue_progress and mark_completed raise nothing: C13.)
C12_NoAnnouncementFailureEndsStream ==
    \A i \in 1..Len(streams) : streams[i].pc # "raised"

\* C19: every chunk an llm_node stream has received is eventually yielded,
\* also when the intent or tool phrase generation never answers.  Streams
\* ended by an exception of activity.say are left aside.
C19_EveryChunkYielded ==
    \A i \in 1..MaxStreams :
        (i <= Len(streams) /\ Len(streams[i].received) > Len(streams[i].yielded))
        ~> ( /\ i <= Len(streams)
             /\ \/ Len(streams[i].received) = Len(streams[i].yielded)
                \/ streams[i].pc = "raised" )

\* The intent phrases generated since the query text last changed.
RECURSIVE IntentsSinceChange(_)
IntentsSinceChange(log) ==
    IF log = <<>> \/ Last(log).kind = "query" THEN 0
    ELSE 1 + IntentsSinceChange(SubSeq(log, 1, Len(log) - 1))

\* C20: with intent announcements enabled, while the query text found stays
\* the same the intent phrase is generated at most once, over any number of
\* tool-call chunks and llm_node calls; a call that finds a different text
\* resets the flag, after which one more phrase can be generated.
C20_OneIntentPerQuery ==
    /\ [](enable_query_intent_announcement
            => IntentsSinceChange(narration) <= 1)
    /\ [][\A text \in Queries \ {""} :
            (text # current_user_query /\ LlmNode(Session, text))
            => (~query_intent_announced' /\ current_user_query' = text)]_vars

\* Q1 got its intent phrase, then the text changed to Q2, which got its own.
C20_SecondQueryAnnounced ==
    /\ enable_query_intent_announcement
    /\ \E i, j, k \in 1..Len(narration) :
          /\ i < j /\ j < k
          /\ narration[i] = [kind |-> "intent", stream |-> 1, text |-> "Q1"]
          /\ narration[j] = [kind |-> "query", text |-> "Q2"]
          /\ narration[k] = [kind |-> "intent", stream |-> 2, text |-> "Q2"]

\* C21: query_intent_announced goes from true to false only in a step in
\* which llm_node finds a text that is not empty and differs from
\* current_user_query; finding the same text or none leaves the flag as it
\* is; and current_user_query is the last text found: a call that finds one
\* saves it, and no other step changes it.
C21_FlagResetOnlyOnNewQuery ==
    [][/\ (query_intent_announced /\ ~query_intent_announced')
          => \E text \in Queries \ {""} :
                text # current_user_query /\ LlmNode(Session, text)
       /\ \A text \in {"", current_user_query} :
             LlmNode(Session, text)
             => query_intent_announced' = query_intent_announced
       /\ \A text \in Queries \ {""} :
             LlmNode(Session, text) => current_user_query' = text
       /\ (\A text \in Queries \ {""} : ~LlmNode(Session, text))
          => current_user_query' = current_user_query]_vars

\* The flag, set by the intent phrase of Q1, has been reset by a second call,
\* which found Q2.
C21_FlagWasReset ==
    /\ ~query_intent_announced
    /\ current_user_query = "Q2"
    /\ Len(narration) >= 3
    /\ narration[Len(narration) - 1].kind = "intent"
    /\ Last(narration) = [kind |-> "query", text |-> "Q2"]
    /\ Len(streams) = 2

\* C22: with tool announcements enabled, at most one phrase is generated for
\* a tool name in the life of the agent: no two llm_node calls both announce
\* the same tool.  (With the feature on, a stream puts a name into its
\* announced_tools exactly when it goes on to generate the phrase for it.)
C22_OnePhrasePerTool ==
    enable_tool_announcements
    => \A i, j \in 1..Len(streams) :
          i # j => streams[i].announced_tools \cap streams[j].announced_tools = {}

\* The tool names announced by the llm_node calls so far.
AnnouncedToolNames(all) ==
    UNION {all[i].announced_tools : i \in 1..Len(all)}

\* C23: announced_phrases and the announced tool names only grow: no step
\* takes a phrase out, and a tool call is tested against every name
\* announced before, also at the start of a new llm_node call.
C23_AnnouncedSetsOnlyGrow ==
    [][/\ announced_phrases \subseteq announced_phrases'
       /\ \A i \in 1..Len(streams) :
             streams[i].announced_tools \subseteq streams'[i].announced_tools
       /\ \A text \in Queries :
             LlmNode(Session, text)
             => AnnouncedToolNames(streams) \subseteq Last(streams').announced_tools]_vars

\* C24: a chunk with a tool call that finds the flag not set and a query
\* text sets the flag in the same step in which the intent phrase is asked
\* for; when the phrase comes, whether the completion failed or activity.say
\* raised, the stream goes on without an exception, the flag stays as it is
\* and no further intent phrase is asked for that text.
C24_IntentFlaggedFirstNoRetry ==
    /\ [](enable_query_intent_announcement
            => IntentsSinceChange(narration) <= 1)
    /\ [][\A i \in 1..Len(streams) :
            /\ \A chunk \in ToolCallChunks \ {<<>>} :
                  ( /\ ~query_intent_announced
                    /\ enable_query_intent_announcement
                    /\ streams[i].user_query # ""
                    /\ StreamChunk(Session, i, chunk) )
                  => /\ query_intent_announced'
                     /\ streams'[i].pc = "intent"
                     /\ Last(narration').kind = "intent"
            /\ \A response \in LLMResponses, say_ok \in BOOLEAN :
                  IntentGenerated(i, response, say_ok)
                  => /\ streams'[i].pc \in {"receiving", "tool"}
                     /\ query_intent_announced' = query_intent_announced
                     /\ narration' = narration]_vars

\* The intent phrase could not be generated and activity.say raised on the
\* fixed phrase; the stream has gone on and the flag is set.
C24_IntentFailedTwice ==
    /\ say_calls = <<[stream |-> 1, text |-> IntentFallback, ok |-> FALSE]>>
    /\ streams[1].pc \in {"receiving", "tool"}
    /\ query_intent_announced

\* C25: every invocation of a wrapped tool calls mark_completed for its tool
\* name exactly once, whether its call returned a result, raised a ToolError
\* or went through the fallback call: none before its call has ended, one
\* from then on, made by the step that ends it and leaving the tool's stop
\* flag set.  Every queue_progress its progress handler makes while the call
\* is awaited comes before that mark_completed.
C25_CompletedOnceAfterProgress ==
    /\ [](\A c \in 1..Len(invocations) :
            invocations[c].completions
              = IF invocations[c].pc = "returned" THEN 1 ELSE 0)
    /\ [][\A c \in 1..Len(invocations) :
            /\ \A outcome \in Outcomes :
                  ToolReturned(c, outcome)
                  => /\ invocations[c].completions = 0
                     /\ invocations'[c].completions = 1
                     /\ Get(speaker_stop_flags', invocations[c].tool_name,
                            FALSE)
            /\ invocations'[c].completions # invocations[c].completions
               => \E outcome \in Outcomes : ToolReturned(c, outcome)
            /\ \A message \in Wrapped.messages :
                  ( /\ invocations[c].pc \in {"calling", "fallback"}
                    /\ ToolProgress(Wrapped, c, message) )
                  => /\ invocations[c].completions = 0
                     /\ invocations'[c].completions = 0]_vars

\* An invocation that queued progress, fell back to original_tool and raised
\* has signalled its completion; another one returned a result.
C25_EveryEndingCompleted ==
    /\ Len(invocations) = 2
    /\ invocations[1].pc = "returned" /\ invocations[1].outcome = "ToolError"
    /\ invocations[1].path = "fallback"
    /\ invocations[2].pc = "returned" /\ invocations[2].outcome = "result"
    /\ invocations[2].path = "direct"
    /\ queued > 0

\* The batch a lane at the end of its batch window collects: the message it
\* took before the wait, then the head of its queue up to BatchCap in all.
BatchAtWake(t) ==
    LET queue == Get(progress_queues, tasks[t].tool_name, <<>>)
        more == IF Len(queue) < BatchCap - 1 THEN Len(queue) ELSE BatchCap - 1
    IN  tasks[t].batched_messages \o SubSeq(queue, 1, more)

\* C26: with enable_natural_language false the phrase generator is never
\* called and both histories stay empty; a lane whose batch window ends
\* without the stop flag set makes exactly one speak call, whose text is the
\* last raw message of the batch it collected.
C26_VerbatimLastMessage ==
    /\ [](~enable_natural_language
          => /\ generated = <<>>
             /\ announcement_history = EmptyDict
             /\ raw_message_history = EmptyDict
             /\ \A t \in 1..Len(tasks) : tasks[t].pc # "generating")
    /\ [][\A t \in 1..Len(tasks), speak_ok \in Wrapped.speech :
            ( /\ ~enable_natural_language
              /\ ~Get(speaker_stop_flags, tasks[t].tool_name, FALSE)
              /\ LaneBatchWake(t, speak_ok) )
            => /\ Len(spoken') = 1
               /\ spoken'[1].task = t
               /\ spoken'[1].text = Last(BatchAtWake(t))
               /\ spoken'[1].messages = BatchAtWake(t)]_vars

\* A batch of two different messages has been spoken as its second one.
C26_SpokeLastOfTwo ==
    /\ ~enable_natural_language
    /\ Len(spoken) = 1
    /\ spoken[1].messages = <<"Loading", "Comparing">>
    /\ spoken[1].text = "Comparing"
    /\ spoken[1].response = "none"

\* C27: a lane whose batch window ends with its stop flag set calls neither
\* the phrase generator nor speak_callback; it drops the batch it collected
\* and what is left in its queue, the queue is deleted and the task is done.
C27_StoppedBatchDiscarded ==
    [][\A t \in 1..Len(tasks), speak_ok \in Wrapped.speech :
         ( /\ Get(speaker_stop_flags, tasks[t].tool_name, FALSE)
           /\ LaneBatchWake(t, speak_ok) )
         => /\ spoken' = <<>>
            /\ generated' = <<>>
            /\ tasks'[t].pc = "done"
            /\ tasks'[t].batched_messages = <<>>
            /\ tasks[t].tool_name \notin DOMAIN progress_queues'
            /\ Len(discarded') = 1
            /\ discarded'[1].task = t
            /\ discarded'[1].batch \o discarded'[1].queue
                 = tasks[t].batched_messages
                   \o Get(progress_queues, tasks[t].tool_name, <<>>)
            /\ raw_message_history'
                 = Del(raw_message_history, tasks[t].tool_name)
            /\ announcement_history'
                 = Del(announcement_history, tasks[t].tool_name)]_vars

\* A lane has just dropped a batch of two messages on its stop flag.
C27_DroppedBatchOfTwo ==
    /\ discarded = <<[ task |-> 1, batch |-> <<"Loading", "Comparing">>,
                       queue |-> <<>> ]>>
    /\ tasks[1].pc = "done"
    /\ "X" \notin DOMAIN progress_queues
    /\ spoken = <<>> /\ generated = <<>>

\* What a lane at the end of its batch window has to take from: the message
\* it took before the wait, then its queue.
PendingAtWake(t) ==
    tasks[t].batched_messages
    \o Get(progress_queues, tasks[t].tool_name, <<>>)

\* C28: every batch given to the phrase generator or spoken holds between one
\* and BatchCap messages; a lane whose batch window ends, unstopped, with
\* more than BatchCap messages pending takes the first BatchCap of them in
\* their order and leaves the others in the queue, in their order.
C28_BatchIsFirstFive ==
    /\ [](/\ \A i \in 1..Len(spoken) :
                Len(spoken[i].messages) \in 1..BatchCap
          /\ \A i \in 1..Len(generated) :
                Len(generated[i].messages) \in 1..BatchCap)
    /\ [][\A t \in 1..Len(tasks), speak_ok \in Flooded.speech :
            ( /\ ~Get(speaker_stop_flags, tasks[t].tool_name, FALSE)
              /\ Len(PendingAtWake(t)) > BatchCap
              /\ LaneBatchWake(t, speak_ok) )
            => /\ \A i \in 1..Len(spoken') :
                     spoken'[i].messages = SubSeq(PendingAtWake(t), 1, BatchCap)
               /\ \A i \in 1..Len(generated') :
                     generated'[i].messages
                       = SubSeq(PendingAtWake(t), 1, BatchCap)
               /\ Len(spoken') + Len(generated') = 1
               /\ progress_queues'[tasks[t].tool_name]
                    = SubSeq(PendingAtWake(t), BatchCap + 1,
                             Len(PendingAtWake(t)))]_vars

\* Seven texts were pending: the first five have been spoken as one batch and
\* the last two are still queued.
C28_FiveTakenTwoLeft ==
    /\ Len(spoken) = 1
    /\ spoken[1].messages = SubSeq(Flooded.script, 1, BatchCap)
    /\ "X" \in DOMAIN progress_queues
    /\ progress_queues["X"] = <<"Exporting", "Packing">>

\* The dictionaries of the manager that are keyed by tool name.
KeyedBy(tool_name) ==
    \/ tool_name \in DOMAIN progress_queues
    \/ tool_name \in DOMAIN speaker_stop_flags
    \/ tool_name \in DOMAIN active_speakers
    \/ tool_name \in DOMAIN announcement_history
    \/ tool_name \in DOMAIN raw_message_history

\* C29: a lane that is running when the stop flag of its tool is set (the
\* flag is set by mark_completed only, and unset when a lane is made) ends,
\* unless its phrase generator call never returns;
\* the step in which a lane stops on its flag ends its task and leaves no
\* dictionary entry under its tool's name; and a lane that has ended never
\* changes again.
C29_SignalledLaneEndsAndReleases ==
    /\ \A t \in 1..Reused.max_tasks :
          ( /\ t <= Len(tasks)
            /\ tasks[t].pc # "done"
            /\ Get(speaker_stop_flags, tasks[t].tool_name, FALSE) )
          ~> ( /\ t <= Len(tasks)
               /\ tasks[t].pc \in {"done", "hung"} )
    /\ [][\A t \in 1..Len(tasks) :
            /\ (Len(discarded') = 1 /\ discarded'[1].task = t)
               => /\ tasks'[t].pc = "done"
                  /\ ~KeyedBy(tasks[t].tool_name)'
            /\ tasks[t].pc = "done" => tasks'[t] = tasks[t]]_vars

\* C30: the histories of a lane gain a batch and a phrase only when the
\* phrase generator succeeded: the step in which the completion of a batch
\* has raised, and the lane goes on, leaves the natural history of the tool
\* as it was and its raw history as it was before the batch, that is without
\* the messages of the batch.
C30_HistoriesGainOnSuccessOnly ==
    [][\A t \in 1..Len(tasks) :
         LaneGenerated(t, "error", TRUE)
         => LET tool_name == tasks[t].tool_name
            IN  /\ Get(announcement_history', tool_name, <<>>)
                     = Get(announcement_history, tool_name, <<>>)
                /\ Get(raw_message_history', tool_name, <<>>)
                     \o tasks[t].batched_messages
                     = Get(raw_message_history, tool_name, <<>>)]_vars

\* C31: the context a lane gives to the phrase generator for a batch is made
\* of earlier batches only: previously_announced is the natural history and
\* raw_messages the raw history its tool had before the batch, none of them
\* holding a message of the batch being generated, no more than the last
\* HistoryContext of each are put into the prompt, and both are empty where
\* the tool has no history yet.
C31_ContextIsEarlierBatches ==
    [][\A t \in 1..Len(tasks), speak_ok \in BOOLEAN :
         LaneBatchWake(t, speak_ok)
         => \A i \in 1..Len(generated') :
               /\ generated'[i].previously_announced
                    = Get(announcement_history, tasks[t].tool_name, <<>>)
               /\ generated'[i].raw_messages
                    = Get(raw_message_history, tasks[t].tool_name, <<>>)
               /\ Len(Recent(generated'[i].previously_announced))
                    <= HistoryContext
               /\ Len(RecentRaw(generated'[i].raw_messages))
                    <= HistoryContext]_vars

\* C32: after every queue_progress call whose message passes the skip
\* patterns, queued or skipped as a repetition, announced_progress holds no
\* stamp older than two dedup windows before the time of the call; and a
\* stamp is forgotten by such a call or by cleanup only.
C32_NoOldStampAfterAttempt ==
    [][/\ \A tool_name \in Aged.tools, message \in Aged.messages :
            ( /\ ShouldAnnounce[message]
              /\ QueueProgress(Aged, tool_name, message) )
            => \A msg \in DOMAIN announced_progress' :
                  announced_progress'[msg] >= now - 2 * dedup_window_seconds
       /\ ~(DOMAIN announced_progress \subseteq DOMAIN announced_progress')
          => \/ Cleanup(Aged)
             \/ \E tool_name \in Aged.tools, message \in Aged.messages :
                   QueueProgress(Aged, tool_name, message)]_vars

\* What queue_progress decides where no stamp is ever forgotten: `submitted`
\* keeps the time every text was last queued at.
AcceptedWithoutPruning(message) ==
    /\ ShouldAnnounce[message]
    /\ \/ message \notin DOMAIN submitted
       \/ now - submitted[message].queued_at > dedup_window_seconds

\* C40: forgetting old stamps never changes what queue_progress decides: a
\* call queues its message exactly when it would with every stamp kept.
C40_PruningKeepsDecisions ==
    [][\A tool_name \in Aged.tools, message \in Aged.messages :
         QueueProgress(Aged, tool_name, message)
         => ( (progress_queues' # progress_queues)
              <=> AcceptedWithoutPruning(message) )]_vars

\* "Loading" was queued at time 0; "Comparing", queued at time MaxAge, made
\* the manager forget that stamp; "Loading" was then queued again by a call
\* that found no stamp for it.
C40_QueuedAgainAfterPruning ==
    /\ shutdowns = 0
    /\ dedup_window_seconds * 2 < MaxAge
    /\ \E t \in 1..Len(tasks) :
          tasks[t].arrived = << [message |-> "Loading", at |-> 0],
                                [message |-> "Comparing", at |-> MaxAge],
                                [message |-> "Loading", at |-> MaxAge] >>
    /\ announced_progress = [msg \in {"Loading", "Comparing"} |-> MaxAge]

\* C33: the finally clause of a task cancelled by cleanup removes its own
\* entries only: where another task has been registered under its tool's
\* name since cleanup, that task's queue with the message in it, its stop
\* flag and its registration are still there afterwards.
C33_CancelledLaneKeepsNewEntries ==
    [][\A t \in 1..Len(tasks) :
         ( /\ tasks[t].tool_name \in DOMAIN active_speakers
           /\ active_speakers[tasks[t].tool_name] # t
           /\ LaneCancelled(t) )
         => LET tool_name == tasks[t].tool_name
            IN  /\ tool_name \in DOMAIN active_speakers'
                /\ active_speakers'[tool_name] = active_speakers[tool_name]
                /\ tool_name \in DOMAIN progress_queues'
                /\ progress_queues'[tool_name] = progress_queues[tool_name]
                /\ tool_name \in DOMAIN speaker_stop_flags'
                /\ speaker_stop_flags'[tool_name]
                     = speaker_stop_flags[tool_name]]_vars

\* The elements of a sequence.
Range(seq) == {seq[i] : i \in 1..Len(seq)}

\* C34: where two calls of one tool overlap, the end of the first does not
\* stop the narration of the second: a lane that stops on its flag drops no
\* text that a call still awaited got queued after another call of the tool
\* had returned during it.
C34_OverlappingCallKeepsNarration ==
    [][\A t \in 1..Len(tasks) :
         (Len(discarded') = 1 /\ discarded'[1].task = t)
         => \A c \in 1..Len(invocations) :
               ( /\ invocations[c].tool_name = tasks[t].tool_name
                 /\ invocations[c].pc \in {"calling", "fallback"} )
               => Range(invocations[c].queued_since)
                    \cap Range(discarded'[1].batch \o discarded'[1].queue)
                    = {}]_vars

\* C35: no queued message is stranded: every tool that has a queue has a
\* task registered for it that has not ended.
C35_QueuedKeyHasLiveLane ==
    \A tool_name \in DOMAIN progress_queues :
        /\ tool_name \in DOMAIN active_speakers
        /\ active_speakers[tool_name] \in Live(Self)

\* C36: a queue_progress call for a tool with no queue in which the speaker
\* task cannot be made leaves the manager as it was: no queue and no stop
\* flag for the tool, and no stamp for the message.
C36_FailedStartLeavesNothing ==
    [][\A tool_name \in Overloaded.tools, message \in Overloaded.messages :
         QueueProgressNoTask(Overloaded, tool_name, message)
         => /\ announced_progress' = announced_progress
            /\ progress_queues' = progress_queues
            /\ speaker_stop_flags' = speaker_stop_flags
            /\ active_speakers' = active_speakers
            /\ tasks' = tasks]_vars

\* C37: one call of a wrapped tool runs the tool once at most, whatever is
\* raised in the direct call or while its result is unwrapped.
C37_ToolRunsOnceAtMost ==
    \A c \in 1..Len(invocations) : invocations[c].executions <= 1

\* C38: of two llm_node calls that found the same text, interleaved at their
\* awaits in any way, one at most generates the intent phrase: two intent
\* phrases of different calls for one text have a change of the query text
\* between them.
C38_OneStreamAnnouncesIntent ==
    \A a, b \in 1..Len(narration) :
        ( /\ a < b
          /\ narration[a].kind = "intent" /\ narration[b].kind = "intent"
          /\ narration[a].stream # narration[b].stream
          /\ narration[a].text = narration[b].text )
        => \E c \in (a + 1)..(b - 1) : narration[c].kind = "query"

\* Two calls found "Q1"; the first is awaiting the intent phrase when the
\* second gets a tool call, and generates none.
C38_SecondStreamSkipsIntent ==
    /\ enable_query_intent_announcement
    /\ Len(streams) = 2
    /\ streams[1].user_query = "Q1" /\ streams[2].user_query = "Q1"
    /\ streams[1].pc = "intent"
    /\ \E k \in 1..Len(streams[2].received) : streams[2].received[k] # <<>>
    /\ narration = << [kind |-> "query", text |-> "Q1"],
                      [kind |-> "intent", stream |-> 1, text |-> "Q1"] >>

\* C39: llm_node passes the chunks of the model stream on as they are: what
\* a stream has yielded is always the chunks it has received, in their order
\* and once each, but for the one chunk it is announcing; a stream that
\* awaits the next chunk or has ended has yielded every chunk; and a stream
\* is ended by an exception only where activity.say raised for the tool
\* phrase and again in the handler.
C39_StreamPassedThrough ==
    /\ [](\A i \in 1..Len(streams) :
            /\ IsPrefix(streams[i].yielded, streams[i].received)
            /\ Len(streams[i].received) <= Len(streams[i].yielded) + 1
            /\ streams[i].pc \in {"receiving", "done"}
               => streams[i].yielded = streams[i].received
            /\ Len(streams[i].received) > Len(streams[i].yielded)
               => Last(streams[i].received) = streams[i].chunk)
    /\ [][\A i \in 1..Len(streams) :
            (streams[i].pc # "raised" /\ streams'[i].pc = "raised")
            => \E response \in LLMResponses :
                  ToolGenerated(i, response, FALSE, FALSE)]_vars

\* A stream with an intent phrase and a tool phrase announced has ended,
\* having yielded its text chunk and its tool-call chunk.
C39_AnnouncedStreamYieldedAll ==
    /\ Len(streams) >= 1
    /\ streams[1].pc = "done"
    /\ streams[1].yielded = <<<<>>, <<"X">>>>
    /\ streams[1].received = streams[1].yielded
    /\ \E k \in 1..Len(narration) :
          narration[k].kind = "intent" /\ narration[k].stream = 1
    /\ "X" \in streams[1].announced_tools
    /\ announced_phrases # {}

====
